---- MODULE Spec2Model ----
(***************************************************************************)
(* Pan3D (Kitware/geo-trame): the reactive state of DatasetBuilder          *)
(* (pan3d/dataset_builder.py) and the render path of DatasetViewer          *)
(* (pan3d/dataset_viewer.py).                                               *)
(*                                                                          *)
(* The trame state object is the record `state`; a write of a new value to  *)
(* a watched key (or an explicit state.dirty) puts the key's @change        *)
(* callbacks in `pending`, and Flush runs them as the framework does at the *)
(* end of a request.  A Python exception aborts the operation and keeps the *)
(* writes made so far.                                                      *)
(***************************************************************************)
EXTENDS Integers, Sequences, FiniteSets, TLC

VARIABLES
  dataset,   \* DatasetBuilder.dataset: the path of the opened dataset, or None
  state,     \* the keys of the trame state DatasetBuilder reads and writes
  pending,   \* the @change callbacks of DatasetBuilder waiting for a flush
  last,      \* the operation that made the last step, with its outcome
  v_state,   \* the keys of the trame state DatasetViewer.plot_mesh works on
  tasks,     \* the plot_mesh coroutines handed to the event loop
  plotter,   \* what DatasetViewer.plotter shows
  has_data,  \* DatasetViewer.builder.data_array is not None
  fresh,     \* the plotter shows a mesh built from the builder's current fields
  mirror,    \* DatasetViewer's UI state beside the fields of its builder
  engine     \* the state of MeshBuilder and MeshViewer (viewer/engine.py)

vars == <<dataset, state, pending, last, v_state, tasks, plotter, has_data, fresh,
          mirror, engine>>
bvars == <<dataset, state, pending>>
vvars == <<v_state, tasks, plotter, has_data, fresh>>

None == "None"

(***************************************************************************)
(* Bounds of the model.                                                     *)
(***************************************************************************)
MaxTimeIndex == 1
MaxTasks == 2
MaxRounds == 4

(***************************************************************************)
(* The datasets the program is run on: what xarray.open_dataset /           *)
(* xarray.tutorial.load_dataset return for each path.                       *)
(***************************************************************************)
Paths == {"air", "empty.nc", "https://bad"}

\* tutorial datasets: an array with two latitude dimensions and one with a
\* dimension of no known name ("grid"); a bounds variable first ("cf")
ScanPaths == {"grid", "cf"}

\* a tutorial dataset of arrays of many sizes; only their byte counts matter
SizePaths == {"sizes"}

\* "https://" in dataset_path or os.path.exists(dataset_path)
IsUrlOrFile(p) == p \in {"empty.nc", "https://bad"}

\* xarray.open_dataset succeeds
Opens(p) == p = "empty.nc"

\* dataset.data_vars.keys(), in dataset order
DataVars(ds) ==
  CASE ds = "air" -> <<"v1", "v2">>
    [] ds = "grid" -> <<"g1", "g2">>
    [] ds = "cf" -> <<"lat_bnds", "v1">>
    [] ds = "sizes" -> <<"b0", "b1", "b500", "b1024", "b2048", "b2560", "b3584",
                         "b5000000", "b1500000000">>
    [] OTHER -> <<>>

\* dataset[var].dims, in dimension order
Dims(var) ==
  CASE var = "v1" -> <<"Time", "lat">>
    [] var = "v2" -> <<"latlon">>
    [] var = "g1" -> <<"lat", "ylat">>
    [] var = "g2" -> <<"band", "Time">>
    [] var = "lat_bnds" -> <<"lat">>
    [] OTHER -> <<>>

AllDims == {"Time", "lat", "latlon"}

\* the characters of a dimension name
Spell(name) ==
  CASE name = "Time" -> <<"T", "i", "m", "e">>
    [] name = "lat" -> <<"l", "a", "t">>
    [] name = "latlon" -> <<"l", "a", "t", "l", "o", "n">>
    [] name = "ylat" -> <<"y", "l", "a", "t">>
    [] name = "band" -> <<"b", "a", "n", "d">>
    [] OTHER -> <<>>

\* da.coords[key].size
CoordSize(name) ==
  CASE name = "Time" -> 2
    [] name = "lat" -> 3
    [] name = "latlon" -> 1
    [] name = "ylat" -> 2
    [] name = "band" -> 2
    [] OTHER -> 0

\* float(da.coords[key].min()) raises TypeError (a coordinate of strings)
NonNumeric(name) == name = "latlon"

\* float(da.coords[key].min()), float(da.coords[key].max())
CoordMinMax(name) ==
  CASE name = "Time" -> <<0, 1>>
    [] name = "lat" -> <<1, 2>>
    [] name = "ylat" -> <<0, 1>>
    [] name = "band" -> <<0, 1>>
    [] OTHER -> <<0, 0>>

\* da.size * da.dtype.itemsize
TotalBytes(var) ==
  CASE var = "b0" -> 0
    [] var = "b1" -> 1
    [] var = "b500" -> 500
    [] var = "b1024" -> 1024
    [] var = "b2048" -> 2048
    [] var = "b2560" -> 2560
    [] var = "b3584" -> 3584
    [] var = "b5000000" -> 5000000
    [] var = "b1500000000" -> 1500000000
    [] var = "g2" -> 32
    [] OTHER -> 24

\* a variable that holds the bounds of a coordinate
IsBoundsVariable(var) == var = "lat_bnds"

HasVar(ds, var) == \E i \in 1..Len(DataVars(ds)) : DataVars(ds)[i] = var

SeqContains(s, x) == \E i \in 1..Len(s) : s[i] = x

(***************************************************************************)
(* trame state: reads, writes and dirty marks.                              *)
(***************************************************************************)
AxisKeys == <<"da_x", "da_y", "da_z", "da_t">>

\* the @change callbacks registered on each state key
Watchers(key) ==
  CASE key = "dataset_path" -> {"_on_change_dataset_path"}
    [] key = "da_active" -> {"_on_change_da_active", "_on_change_da_inputs"}
    [] key \in {"da_x", "da_y", "da_z", "da_t", "da_t_index", "da_coordinates"}
         -> {"_on_change_da_inputs"}
    [] OTHER -> {}

\* self.state[key] = value
\* a write that marks the key's callbacks even when the value is unchanged
WriteMarking(b, key, value) ==
  [b EXCEPT !.state[key] = value, !.pending = @ \cup Watchers(key)]

Write(b, key, value) ==
  IF b.state[key] = value THEN b
  ELSE [b EXCEPT !.state[key] = value, !.pending = @ \cup Watchers(key)]

\* self.state.dirty(key)
Dirty(b, key) == [b EXCEPT !.pending = @ \cup Watchers(key)]

Raise(b, exc) == [b EXCEPT !.raised = exc]

\* Python truthiness of an axis / name value
Truthy(v) == v # None

(***************************************************************************)
(* Auto-axis-selection (DatasetBuilder.auto_select_coordinates).            *)
(***************************************************************************)
UpperAlpha == <<"A", "B", "C", "D", "E", "F", "G", "H", "I", "J", "K", "L", "M",
                "N", "O", "P", "Q", "R", "S", "T", "U", "V", "W", "X", "Y", "Z">>
LowerAlpha == <<"a", "b", "c", "d", "e", "f", "g", "h", "i", "j", "k", "l", "m",
                "n", "o", "p", "q", "r", "s", "t", "u", "v", "w", "x", "y", "z">>

LowerChar(c) ==
  IF \E i \in 1..26 : UpperAlpha[i] = c
  THEN LowerAlpha[CHOOSE i \in 1..26 : UpperAlpha[i] = c]
  ELSE c

\* str.lower()
Lower(s) == [i \in 1..Len(s) |-> LowerChar(s[i])]

\* accepted in name
IsSubstring(k, n) ==
  \E i \in 0..(Len(n) - Len(k)) : SubSeq(n, i + 1, i + Len(k)) = k

\* pan3d.utils.coordinate_auto_selection: axis state key -> accepted names
coordinate_auto_selection ==
  << [axis |-> "da_x",
      accepted |-> << <<"x">>, <<"i">>, <<"l", "o", "n">>, <<"l", "e", "n">> >>],
     [axis |-> "da_y",
      accepted |-> << <<"y">>, <<"j">>, <<"l", "a", "t">>,
                      <<"w", "i", "d", "t", "h">> >>],
     [axis |-> "da_z",
      accepted |-> << <<"z">>, <<"k">>, <<"d", "e", "p", "t", "h">>,
                      <<"h", "e", "i", "g", "h", "t">> >>],
     [axis |-> "da_t",
      accepted |-> << <<"t">>, <<"t", "i", "m", "e">> >>] >>

\* a match rule that accepts every keyword the name contains
AcceptsContained(accepted, name) == IsSubstring(accepted, name)

\* (len(accepted) == 1 and accepted == name) or (len(accepted) > 1 and accepted in name)
Accepts(accepted, name) ==
  \/ Len(accepted) = 1 /\ accepted = name
  \/ Len(accepted) > 1 /\ IsSubstring(accepted, name)

\* the name_match list of one coordinate against one axis
NameMatch(coordinate, accepted_names) ==
  LET name == Lower(Spell(coordinate.name))
      hits == SelectSeq(accepted_names, LAMBDA accepted : Accepts(accepted, name))
  IN [i \in 1..Len(hits) |-> coordinate.name]

\* one pass of the inner loop: the axes this coordinate is written to
ScanAxes(st, coordinate, update) ==
  [a \in 1..4 |->
     LET entry == coordinate_auto_selection[a]
         name_match == NameMatch(coordinate, entry.accepted)
     IN IF ~Truthy(st[entry.axis]) /\ Len(name_match) > 0
        THEN name_match[1]
        ELSE update[a]]

RECURSIVE ScanCoordinates(_, _, _, _)
ScanCoordinates(st, coords, i, update) ==
  IF i > Len(coords) THEN update
  ELSE ScanCoordinates(st, coords, i + 1, ScanAxes(st, coords[i], update))

\* the dict state_update built by the two loops ("absent": key not set)
StateUpdate(st) ==
  ScanCoordinates(st, st.da_coordinates, 1, [a \in 1..4 |-> "absent"])

RECURSIVE ApplyUpdate(_, _, _)
ApplyUpdate(b, update, a) ==
  IF a > 4 THEN b
  ELSE ApplyUpdate(IF update[a] = "absent" THEN b
                   ELSE Write(b, coordinate_auto_selection[a].axis, update[a]),
                   update, a + 1)

\* a guard that leaves out da_t
AnyAxisAssignedNoT(st) ==
  Truthy(st.da_x) \/ Truthy(st.da_y) \/ Truthy(st.da_z)

\* if self.state.da_x or self.state.da_y or self.state.da_z or self.state.da_t
AnyAxisAssigned(st) ==
  Truthy(st.da_x) \/ Truthy(st.da_y) \/ Truthy(st.da_z) \/ Truthy(st.da_t)

auto_select_coordinates(b) ==
  IF AnyAxisAssigned(b.state) THEN b
  ELSE ApplyUpdate(b, StateUpdate(b.state), 1)

(***************************************************************************)
(* Setters of DatasetBuilder.                                               *)
(***************************************************************************)
\* one entry of da_coordinates, as set_data_array_active_name builds it
NewCoordinate(key) ==
  LET array_min == IF NonNumeric(key) THEN 0 ELSE CoordMinMax(key)[1]
      array_max == IF NonNumeric(key) THEN CoordSize(key) ELSE CoordMinMax(key)[2]
  IN [name |-> key, size |-> CoordSize(key), range |-> <<array_min, array_max>>,
      start |-> array_min, stop |-> array_max, step |-> 1]

BuildCoordinates(var) == [i \in 1..Len(Dims(var)) |-> NewCoordinate(Dims(var)[i])]

\* the axes and time index auto_select_coordinates is entered with
AxesOf(st) == <<st.da_x, st.da_y, st.da_z, st.da_t, st.da_t_index>>

set_data_array_active_name(b, da_active) ==
  LET b1 == Write(b, "da_active", da_active) IN
  IF b1.dataset = None \/ da_active = None THEN b1
  ELSE IF ~HasVar(b1.dataset, da_active) THEN Raise(b1, "KeyError")
  ELSE LET b2 == Write(b1, "ui_error_message", None)
           b3 == Dirty(Write(b2, "da_coordinates", BuildCoordinates(da_active)),
                       "da_coordinates")
           b4 == [b3 EXCEPT !.entry = AxesOf(b3.state)]
       IN auto_select_coordinates(b4)

\* lines 180-204 of set_dataset_path, after the dataset is opened
DatasetLoaded(b) ==
  LET b1 == Write(b, "da_vars", DataVars(b.dataset))
      b2 == Write(b1, "da_coordinates", <<>>)
      b3 == Write(Write(Write(Write(Write(b2, "da_x", None), "da_y", None),
                              "da_z", None), "da_t", None), "da_t_index", 0)
      b4 == Write(b3, "dataset_ready", TRUE)
      b5 == IF Len(b4.state.da_vars) > 0
            THEN set_data_array_active_name(b4, b4.state.da_vars[1])
            ELSE Write(b4, "no_da_vars", TRUE)
  IN IF b5.raised # None THEN b5 ELSE Write(b5, "ui_loading", FALSE)

set_dataset_path(b, dataset_path) ==
  LET b1 == Write(b, "dataset_path", dataset_path) IN
  IF dataset_path = None THEN b1
  ELSE LET b2 == Write(b1, "ui_loading", TRUE) IN
       IF IsUrlOrFile(dataset_path) /\ ~Opens(dataset_path)
       THEN Write(b2, "ui_error_message", "open failed")
       ELSE DatasetLoaded([b2 EXCEPT !.dataset = dataset_path])

\* bool(self.dataset): an xarray Dataset is truthy iff it has data variables
DatasetTruthy(ds) == ds # None /\ Len(DataVars(ds)) > 0

\* kw: the keyword arguments, a function from a subset of {"x","y","z","t"}
set_data_array_axis_names(b, kw) ==
  LET has(k) == k \in DOMAIN kw
      b1 == IF has("x") THEN Write(b, "da_x", kw["x"]) ELSE b
      b2 == IF has("y") THEN Write(b1, "da_y", kw["y"]) ELSE b1
      b3 == IF has("z") THEN Write(b2, "da_z", kw["z"]) ELSE b2
  IN IF has("t") /\ kw["t"] # b3.state.da_t
     THEN LET b4 == Write(b3, "da_t", kw["t"]) IN
          IF DatasetTruthy(b4.dataset) /\ Truthy(b4.state.da_active)
             /\ Truthy(b4.state.da_t)
          THEN IF HasVar(b4.dataset, b4.state.da_active)
                  /\ SeqContains(Dims(b4.state.da_active), b4.state.da_t)
               THEN Write(b4, "da_t_max", CoordSize(b4.state.da_t) - 1)
               ELSE Raise(b4, "KeyError")
          ELSE b4
     ELSE b3

set_data_array_time_index(b, index) == Write(b, "da_t_index", index)

\* the slicing dict derived from a coordinate list
SlicingOf(da_coordinates) ==
  [n \in {da_coordinates[i].name : i \in 1..Len(da_coordinates)} |->
     LET coord == da_coordinates[CHOOSE i \in 1..Len(da_coordinates) :
                                   /\ da_coordinates[i].name = n
                                   /\ \A j \in (i + 1)..Len(da_coordinates) :
                                        da_coordinates[j].name # n]
     IN <<coord.start, coord.stop, coord.step>>]

\* a setter that derives the slicing only when the list is replaced
set_data_array_coordinates_replaced(b, da_coordinates) ==
  IF b.state.da_coordinates = da_coordinates THEN b
  ELSE Write(Write(b, "da_coordinates", da_coordinates),
             "slicing", SlicingOf(da_coordinates))

set_data_array_coordinates(b, da_coordinates) ==
  Write(Write(b, "da_coordinates", da_coordinates),
        "slicing", SlicingOf(da_coordinates))

\* Python's round(n / d) for integers n >= 0 and d > 0: halves go to the even
\* neighbour
Round(n, d) ==
  LET q == n \div d
      r == n % d
  IN IF 2 * r < d THEN q
     ELSE IF 2 * r > d THEN q + 1
     ELSE IF q % 2 = 0 THEN q ELSE q + 1

\* exponents_map = {0: "bytes", 1: "KB", 2: "MB", 3: "GB"}
exponents_map == <<"bytes", "KB", "MB", "GB">>

RECURSIVE SizeLadder(_, _, _)
\* the loop over the exponents from `exponent` down to 0: da_size is assigned
\* at the first divisor that total_bytes exceeds, and kept when there is none
SizeLadder(total_bytes, exponent, da_size) ==
  IF exponent < 0 THEN da_size
  ELSE IF total_bytes > 1024 ^ exponent
  THEN <<Round(total_bytes, 1024 ^ exponent), exponents_map[exponent + 1]>>
  ELSE SizeLadder(total_bytes, exponent - 1, da_size)

mesh_changed(b) ==
  IF b.dataset = None THEN b
  ELSE IF ~HasVar(b.dataset, b.state.da_active) THEN Raise(b, "KeyError")
  ELSE LET total_bytes == IF Truthy(b.state.da_active)
                          THEN TotalBytes(b.state.da_active) ELSE 0
       IN Write(Write(Write(b, "da_size", SizeLadder(total_bytes, 3, b.state.da_size)),
                      "ui_unapplied_changes", TRUE),
                "ui_loading", FALSE)

(***************************************************************************)
(* UI bound methods of DatasetBuilder.                                      *)
(***************************************************************************)
Digits == <<"0", "1", "2", "3", "4", "5", "6", "7", "8", "9">>

IsDigit(c) == \E d \in 1..10 : Digits[d] = c

DigitValue(c) == (CHOOSE d \in 1..10 : Digits[d] = c) - 1

\* str.isnumeric(): non-empty and every character a digit
IsNumeric(value) == Len(value) > 0 /\ \A i \in 1..Len(value) : IsDigit(value[i])

RECURSIVE ToFloat(_)
\* float(value) of a string of digits
ToFloat(value) ==
  IF Len(value) = 0 THEN 0
  ELSE 10 * ToFloat(SubSeq(value, 1, Len(value) - 1)) + DigitValue(value[Len(value)])

\* the strings typed into a slice field
ValueInputs == { <<"0">>, <<"1">>, <<"2">>, <<"3">>, <<"1", "0">>,
                 <<"-", "1">>, <<"1", ".", "5">>, <<"a">> }

SliceAttributes == {"start", "stop", "step"}

\* a step check that admits the size itself
StepAcceptedUpToSize(value, coordinate) == value > 0 /\ value <= coordinate.size

\* value > 0 and value < coordinate["size"]
StepAccepted(value, coordinate) == value > 0 /\ value < coordinate.size

\* value >= coordinate["range"][0] and value <= coordinate["range"][1]
BoundAccepted(value, coordinate) ==
  value >= coordinate.range[1] /\ value <= coordinate.range[2]

\* does coordinate_change_slice assign coordinate[slice_attribute_name]
SliceEditAccepted(st, coordinate_name, slice_attribute_name, value) ==
  /\ IsNumeric(value)
  /\ \E i \in 1..Len(st.da_coordinates) : st.da_coordinates[i].name = coordinate_name
  /\ LET coord_i == CHOOSE i \in 1..Len(st.da_coordinates) :
                      /\ st.da_coordinates[i].name = coordinate_name
                      /\ \A j \in 1..(i - 1) :
                           st.da_coordinates[j].name # coordinate_name
         coordinate == st.da_coordinates[coord_i]
     IN IF slice_attribute_name = "step"
        THEN StepAccepted(ToFloat(value), coordinate)
        ELSE BoundAccepted(ToFloat(value), coordinate)

coordinate_change_slice(b, coordinate_name, slice_attribute_name, value) ==
  IF /\ IsNumeric(value)
     /\ \E i \in 1..Len(b.state.da_coordinates) :
          b.state.da_coordinates[i].name = coordinate_name
  THEN LET coord_i == CHOOSE i \in 1..Len(b.state.da_coordinates) :
                        /\ b.state.da_coordinates[i].name = coordinate_name
                        /\ \A j \in 1..(i - 1) :
                             b.state.da_coordinates[j].name # coordinate_name
           coordinate ==
             IF SliceEditAccepted(b.state, coordinate_name,
                                  slice_attribute_name, value)
             THEN [b.state.da_coordinates[coord_i]
                     EXCEPT ![slice_attribute_name] = ToFloat(value)]
             ELSE b.state.da_coordinates[coord_i]
       IN Dirty([b EXCEPT !.state.da_coordinates[coord_i] = coordinate],
                "da_coordinates")
  ELSE b

\* self.state[key] of a key that may not exist
StateGet(st, key) == IF key \in DOMAIN st THEN st[key] ELSE None

\* an axis pick that leaves the current axis as it is
coordinate_select_axis_keeping(b, coordinate_name, current_axis, new_axis) ==
  IF new_axis # "" /\ new_axis # "undefined"
  THEN Write(b, new_axis, coordinate_name) ELSE b

coordinate_select_axis(b, coordinate_name, current_axis, new_axis) ==
  LET b1 == IF Truthy(StateGet(b.state, current_axis))
            THEN Write(b, current_axis, None) ELSE b
  IN IF new_axis # "" /\ new_axis # "undefined"
     THEN Write(b1, new_axis, coordinate_name) ELSE b1

(***************************************************************************)
(* Config export and import.                                                *)
(***************************************************************************)
AxisLetters == <<"x", "y", "z", "t">>

\* a key table with the y and t axes exchanged
AxisKeyOfExchanged(letter) ==
  CASE letter = "x" -> "da_x" [] letter = "y" -> "da_t"
    [] letter = "z" -> "da_z" [] letter = "t" -> "da_y"

AxisKeyOf(letter) ==
  CASE letter = "x" -> "da_x" [] letter = "y" -> "da_y"
    [] letter = "z" -> "da_z" [] letter = "t" -> "da_t"

\* a coordinate is exported when start, stop or step is truthy
SliceExported(coordinate) ==
  coordinate.start # 0 \/ coordinate.stop # 0 \/ coordinate.step # 0

export_config(st) ==
  LET axes == {AxisLetters[i] : i \in {j \in 1..4 : Truthy(st[AxisKeys[j]])}}
      akeys == {"active"} \cup axes
                 \cup (IF st.da_t_index # 0 THEN {"t_index"} ELSE {})
      data_array == [k \in akeys |->
                       IF k = "active" THEN st.da_active
                       ELSE IF k = "t_index" THEN st.da_t_index
                       ELSE st[AxisKeyOf(k)]]
      sliced == {i \in 1..Len(st.da_coordinates) : SliceExported(st.da_coordinates[i])}
      data_slices == [n \in {st.da_coordinates[i].name : i \in sliced} |->
                        SlicingOf(st.da_coordinates)[n]]
      ckeys == {"data_origin", "data_array"}
                 \cup (IF sliced # {} THEN {"data_slices"} ELSE {})
  IN [k \in ckeys |->
        IF k = "data_origin" THEN st.dataset_path
        ELSE IF k = "data_array" THEN data_array
        ELSE data_slices]

\* config without one of its keys
Without(config, key) == [k \in (DOMAIN config) \ {key} |-> config[k]]

\* a validation that looks at data_origin only
InvalidConfigOriginOnly(config) ==
  \/ "data_origin" \notin DOMAIN config
  \/ config["data_origin"] = None

\* not origin_config or not array_config
InvalidConfig(config) ==
  \/ "data_origin" \notin DOMAIN config
  \/ config["data_origin"] = None
  \/ "data_array" \notin DOMAIN config
  \/ DOMAIN config["data_array"] = {}

\* lines 431-441: the coordinate list with the config's slices applied
SlicedCoordinates(da_coordinates, slices_config) ==
  [i \in 1..Len(da_coordinates) |->
     IF da_coordinates[i].name \in DOMAIN slices_config
     THEN [da_coordinates[i] EXCEPT
             !.start = slices_config[da_coordinates[i].name][1],
             !.stop = slices_config[da_coordinates[i].name][2],
             !.step = slices_config[da_coordinates[i].name][3]]
     ELSE da_coordinates[i]]

\* an import that leaves out the switch to the config's active array
ApplyConfigNoActive(b, config) ==
  LET Try(r, Statement(_)) == IF r.raised = None THEN Statement(r) ELSE r
      array_config == config["data_array"]
      b1 == set_dataset_path(b, config["data_origin"])
      b3 == Try(b1, LAMBDA x : set_data_array_axis_names(x,
                   [k \in (DOMAIN array_config) \cap {"x", "y", "z", "t"} |->
                      array_config[k]]))
      b5 == Try(b3, LAMBDA x :
                  IF "data_slices" \in DOMAIN config /\ DOMAIN config["data_slices"] # {}
                  THEN set_data_array_coordinates(x,
                         SlicedCoordinates(x.state.da_coordinates, config["data_slices"]))
                  ELSE x)
  IN Try(b5, mesh_changed)

\* lines 424-447 of import_config, after validation; Try runs the next statement
\* unless an exception has left the method
ApplyConfig(b, config) ==
  LET Try(r, Statement(_)) == IF r.raised = None THEN Statement(r) ELSE r
      array_config == IF "data_array" \in DOMAIN config
                      THEN config["data_array"] ELSE [k \in {} |-> None]
      b1 == set_dataset_path(b, config["data_origin"])
      b2 == Try(b1, LAMBDA x :
                  IF "data_array" \notin DOMAIN config THEN Raise(x, "TypeError")
                  ELSE IF "active" \in DOMAIN array_config
                  THEN set_data_array_active_name(x, array_config["active"]) ELSE x)
      b3 == Try(b2, LAMBDA x : set_data_array_axis_names(x,
                   [k \in (DOMAIN array_config) \cap {"x", "y", "z", "t"} |->
                      array_config[k]]))
      b4 == Try(b3, LAMBDA x :
                  IF "da_t_index" \in DOMAIN array_config
                  THEN Raise(x, "AttributeError") ELSE x)
      b5 == Try(b4, LAMBDA x :
                  IF "data_slices" \in DOMAIN config /\ DOMAIN config["data_slices"] # {}
                  THEN set_data_array_coordinates(x,
                         SlicedCoordinates(x.state.da_coordinates, config["data_slices"]))
                  ELSE x)
  IN Try(b5, mesh_changed)

import_config(b, config) ==
  IF InvalidConfig(config)
  THEN Write(b, "ui_action_message", "Invalid format of import file.")
  ELSE ApplyConfig(b, config)

(***************************************************************************)
(* @change callbacks of DatasetBuilder and the framework's flush.           *)
(***************************************************************************)
_on_change_dataset_path(b, snapshot) == set_dataset_path(b, snapshot.dataset_path)

_on_change_da_active(b, snapshot) ==
  LET Try(r, Statement(_)) == IF r.raised = None THEN Statement(r) ELSE r
  IN Try(set_data_array_active_name(b, snapshot.da_active), auto_select_coordinates)

_on_change_da_inputs(b, snapshot) ==
  LET Try(r, Statement(_)) == IF r.raised = None THEN Statement(r) ELSE r
      b1 == set_data_array_axis_names(b,
              [k \in {"x", "y", "z", "t"} |-> snapshot[AxisKeyOf(k)]])
      b2 == Try(b1, LAMBDA x : set_data_array_time_index(x, snapshot.da_t_index))
      b3 == Try(b2, LAMBDA x : set_data_array_coordinates(x, snapshot.da_coordinates))
  IN Try(b3, mesh_changed)

\* one round of State.flush: the callbacks of the keys dirty at its start run in
\* registration order, each called with the state as it was at the round's start
FlushRound(b) ==
  LET Try(r, Statement(_)) == IF r.raised = None THEN Statement(r) ELSE r
      fired == b.pending
      snapshot == b.state
      b0 == [b EXCEPT !.pending = {}]
      b1 == IF "_on_change_dataset_path" \in fired
            THEN _on_change_dataset_path(b0, snapshot) ELSE b0
      b2 == Try(b1, LAMBDA x : IF "_on_change_da_active" \in fired
                               THEN _on_change_da_active(x, snapshot) ELSE x)
  IN Try(b2, LAMBDA x : IF "_on_change_da_inputs" \in fired
                        THEN _on_change_da_inputs(x, snapshot) ELSE x)

RECURSIVE FlushRounds(_, _)
\* State.flush: rounds until no key is dirty; an exception ends the flush
FlushRounds(b, n) ==
  IF b.pending = {} \/ b.raised # None \/ n = 0 THEN b
  ELSE FlushRounds(FlushRound(b), n - 1)

(***************************************************************************)
(* The builder as a state machine.                                          *)
(***************************************************************************)
initial_state ==
  [dataset_path |-> None, da_active |-> None, da_vars |-> <<>>,
   da_coordinates |-> <<>>, da_x |-> None, da_y |-> None, da_z |-> None,
   da_t |-> None, da_t_index |-> 0, da_t_max |-> 0, da_size |-> <<>>,
   slicing |-> [n \in {} |-> <<0, 0, 0>>],
   ui_loading |-> FALSE, ui_error_message |-> None, ui_action_message |-> None,
   ui_unapplied_changes |-> FALSE, no_da_vars |-> FALSE, dataset_ready |-> FALSE]

NoOp == [op |-> "init", kind |-> None, accepted |-> FALSE, raised |-> None,
         entry |-> <<>>]

\* the builder before an operation
Builder == [dataset |-> dataset, state |-> state, pending |-> pending,
            raised |-> None, entry |-> <<>>]

\* the builder after an operation
Becomes(b, op, kind, accepted) ==
  /\ dataset' = b.dataset
  /\ state' = b.state
  /\ pending' = b.pending
  /\ last' = [op |-> op, kind |-> kind, accepted |-> accepted,
              raised |-> b.raised,
              entry |-> IF op = "set_data_array_active_name" THEN b.entry ELSE <<>>]
  /\ UNCHANGED <<vvars, mirror, engine>>

SetDatasetPath(p) ==
  /\ p \in Paths \cup ScanPaths \cup SizePaths \cup {None}
  /\ Becomes(set_dataset_path(Builder, p), "set_dataset_path", None, FALSE)

SetDataArrayActiveName(i) ==
  /\ i \in 1..Len(state.da_vars)
  /\ Becomes(set_data_array_active_name(Builder, state.da_vars[i]),
             "set_data_array_active_name", None, FALSE)

SetDataArrayTimeIndex(index) ==
  /\ index \in Nat
  /\ Becomes(set_data_array_time_index(Builder, index),
             "set_data_array_time_index", None, FALSE)

AutoSelectCoordinates ==
  /\ Len(state.da_coordinates) >= 0
  /\ Becomes(auto_select_coordinates(Builder), "auto_select_coordinates",
             None, FALSE)

AxisChoices == {"da_x", "da_y", "da_z", "da_t", "undefined"}

\* the axis select of a coordinate's panel: the current axis is the one that
\* shows the coordinate, "undefined" when the coordinate is on no axis
CoordinateSelectAxis(i, current_axis, new_axis) ==
  /\ i \in 1..Len(state.da_coordinates)
  /\ IF current_axis = "undefined"
     THEN \A a \in 1..4 : state[AxisKeys[a]] # state.da_coordinates[i].name
     ELSE state[current_axis] = state.da_coordinates[i].name
  /\ Becomes(coordinate_select_axis(Builder, state.da_coordinates[i].name,
                                    current_axis, new_axis),
             "coordinate_select_axis", None, FALSE)

CoordinateChangeSlice(coordinate_name, slice_attribute_name, value) ==
  /\ slice_attribute_name \in SliceAttributes
  /\ Becomes(coordinate_change_slice(Builder, coordinate_name,
                                     slice_attribute_name, value),
             "coordinate_change_slice", None,
             SliceEditAccepted(state, coordinate_name, slice_attribute_name, value))

\* the keyword arguments of a direct call of set_data_array_axis_names: the
\* current axes ("same"), or the x and y axes exchanged ("exchanged")
AxisNamesInput(kind) ==
  IF kind = "same" THEN [k \in {"x", "y", "z", "t"} |-> state[AxisKeyOf(k)]]
  ELSE [k \in {"x", "y"} |-> IF k = "x" THEN state.da_y ELSE state.da_x]

SetDataArrayAxisNames(kind) ==
  /\ kind \in {"same", "exchanged"}
  /\ Becomes(set_data_array_axis_names(Builder, AxisNamesInput(kind)),
             "set_data_array_axis_names", kind, FALSE)

\* the argument of a direct call of set_data_array_coordinates: the current
\* list ("same"), or the list with every stop moved to its start ("narrowed")
CoordinatesInput(kind) ==
  IF kind = "same" THEN state.da_coordinates
  ELSE [i \in 1..Len(state.da_coordinates) |->
          [state.da_coordinates[i] EXCEPT !.stop = state.da_coordinates[i].start]]

SetDataArrayCoordinates(kind) ==
  /\ kind \in {"same", "narrowed"}
  /\ Becomes(set_data_array_coordinates(Builder, CoordinatesInput(kind)),
             "set_data_array_coordinates", kind, FALSE)

\* the configs handed to import_config
ConfigKinds == {"export", "no_origin", "no_array"}

ConfigInput(kind) ==
  CASE kind = "export" -> export_config(state)
    [] kind = "no_origin" -> Without(export_config(state), "data_origin")
    [] kind = "no_array" -> Without(export_config(state), "data_array")

ImportConfig(kind) ==
  /\ kind \in ConfigKinds
  /\ Becomes(import_config(Builder, ConfigInput(kind)), "import_config", kind,
             ~InvalidConfig(ConfigInput(kind)))

Flush ==
  /\ pending # {}
  /\ Becomes(FlushRounds(Builder, MaxRounds), "flush", None, FALSE)

(***************************************************************************)
(* DatasetViewer beside its builder.  `mirror` holds the fields of the      *)
(* builder that DatasetViewer reads as self.builder.<field>, the UI state   *)
(* keys its methods write, the keys whose @change callbacks wait for a      *)
(* flush, and whether the builder holds the viewer in _viewer.  The viewer  *)
(* under construction is the record w of these and of v_state (vs), tasks   *)
(* (ts) and plotter (pl).  The setters of this builder are not in           *)
(* dataset_builder.py; they are taken from the description of the builder.  *)
(***************************************************************************)
\* DatasetBuilder(): nothing loaded; slicing None is the empty mapping
NewBuilder ==
  [dataset_path |-> None, dataset |-> None, data_array_name |-> None,
   x |-> None, y |-> None, z |-> None, t |-> None, t_index |-> 0,
   slicing |-> <<>>]

\* the keys of initial_state the viewer's methods and callbacks work on; the
\* number 0 of da_size is <<0>>, no time text is <<>>
initial_ui ==
  [dataset_path |-> None, da_active |-> None, da_x |-> None, da_y |-> None,
   da_z |-> None, da_t |-> None, da_t_index |-> 0, da_coordinates |-> <<>>,
   da_vars |-> <<>>, da_size |-> <<0>>, ui_expanded_coordinates |-> <<>>,
   ui_current_time_string |-> <<>>, no_da_vars |-> FALSE,
   dataset_ready |-> FALSE]

(***************************************************************************)
(* The viewer of pan3d/viewer/engine.py: MeshBuilder and MeshViewer on one  *)
(* trame state.  `engine` holds MeshBuilder._dataset, the state keys the    *)
(* two classes write, the keys whose callbacks wait for a flush, and what   *)
(* MeshViewer.plotter shows.                                                *)
(***************************************************************************)
\* the state after MeshBuilder.clear_dataset, as __init__ leaves it
cleared_engine ==
  [dataset |-> None, dataset_path |-> None, data_vars |-> <<>>,
   coordinates |-> <<>>, dataset_ready |-> FALSE, no_data_vars |-> FALSE,
   array_active |-> None, grid_x_array |-> None, grid_y_array |-> None,
   grid_z_array |-> None, grid_t_array |-> None, time_max |-> 0,
   time_index |-> 0, error_message |-> None, pending |-> {},
   plotter |-> "empty"]

Init ==
  /\ dataset = None
  /\ state = initial_state
  /\ pending = {}
  /\ last = NoOp
  /\ v_state = [ui_loading |-> FALSE, ui_error_message |-> None,
                ui_unapplied_changes |-> FALSE, render_auto |-> FALSE,
                render_scalar_warp |-> FALSE]
  /\ tasks = [t \in 1..MaxTasks |-> "idle"]
  /\ plotter = "empty"
  /\ has_data = FALSE
  /\ fresh = FALSE
  /\ mirror = [builder |-> NewBuilder, ui |-> initial_ui, pending |-> {},
               attached |-> FALSE, built |-> FALSE]
  /\ engine = cleared_engine

(***************************************************************************)
(* Slice edits on the coordinate lists of every dataset.                    *)
(***************************************************************************)
NextSlice ==
  \/ \E p \in Paths : SetDatasetPath(p)
  \/ \E i \in 1..2 : SetDataArrayActiveName(i)
  \/ \E c \in AllDims \cup {"depth"}, a \in SliceAttributes, v \in ValueInputs :
       CoordinateChangeSlice(c, a, v)
  \/ Flush

SpecSlice == Init /\ [][NextSlice]_vars

(***************************************************************************)
(* Axis assignment: loads, array switches, axis picks, auto-selection.      *)
(***************************************************************************)
NextAxes ==
  \/ \E p \in {"air", "empty.nc"} : SetDatasetPath(p)
  \/ \E i \in 1..2 : SetDataArrayActiveName(i)
  \/ \E index \in 0..MaxTimeIndex : SetDataArrayTimeIndex(index)
  \/ \E i \in 1..2, cur \in AxisChoices, new \in AxisChoices :
       CoordinateSelectAxis(i, cur, new)
  \/ AutoSelectCoordinates
  \/ Flush

SpecAxes == Init /\ [][NextAxes]_vars

(***************************************************************************)
(* Config export and import on the tutorial dataset.                        *)
(***************************************************************************)
ConfigEditValues == { <<"1">> }

ConfigAxisChoices == {"da_t", "undefined"}

NextConfig ==
  \/ SetDatasetPath("air")
  \/ \E i \in 1..2 : SetDataArrayActiveName(i)
  \/ \E index \in 0..MaxTimeIndex : SetDataArrayTimeIndex(index)
  \/ \E i \in 1..2, cur \in AxisChoices, new \in ConfigAxisChoices :
       CoordinateSelectAxis(i, cur, new)
  \/ \E c \in AllDims, a \in SliceAttributes, v \in ConfigEditValues :
       CoordinateChangeSlice(c, a, v)
  \/ \E kind \in ConfigKinds : ImportConfig(kind)
  \/ Flush

SpecConfig == Init /\ [][NextConfig]_vars

(***************************************************************************)
(* Auto-selection on arrays whose dimensions share an axis or match none,   *)
(* and loads of a dataset whose first variable is a bounds variable.        *)
(***************************************************************************)
NextScan ==
  \/ \E p \in ScanPaths : SetDatasetPath(p)
  \/ \E i \in 1..2 : SetDataArrayActiveName(i)
  \/ \E i \in 1..2, cur \in AxisChoices, new \in AxisChoices :
       CoordinateSelectAxis(i, cur, new)
  \/ AutoSelectCoordinates
  \/ Flush

SpecScan == Init /\ [][NextScan]_vars

(***************************************************************************)
(* The size text of arrays of many byte counts.                             *)
(***************************************************************************)
NextSize ==
  \/ \E p \in SizePaths : SetDatasetPath(p)
  \/ \E i \in 1..9 : SetDataArrayActiveName(i)
  \/ Flush

SpecSize == Init /\ [][NextSize]_vars

(***************************************************************************)
(* Direct calls of the builder's setters.                                   *)
(***************************************************************************)
NextSetters ==
  \/ \E p \in {"air", "empty.nc"} : SetDatasetPath(p)
  \/ \E i \in 1..2 : SetDataArrayActiveName(i)
  \/ \E index \in 0..MaxTimeIndex : SetDataArrayTimeIndex(index)
  \/ \E kind \in {"same", "exchanged"} : SetDataArrayAxisNames(kind)
  \/ \E kind \in {"same", "narrowed"} : SetDataArrayCoordinates(kind)
  \/ Flush

SpecSetters == Init /\ [][NextSetters]_vars

(***************************************************************************)
(* DatasetViewer: the render path.  A plot_mesh coroutine is "scheduled"    *)
(* from apply_and_render until the event loop starts it, "sleeping" while   *)
(* it is suspended in asyncio.sleep, and "idle" once it has returned or     *)
(* raised.                                                                  *)
(***************************************************************************)
Tasks == 1..MaxTasks

FreeTask == CHOOSE t \in Tasks : tasks[t] = "idle"

HasFreeTask == \E t \in Tasks : tasks[t] = "idle"

\* asyncio.run_coroutine_threadsafe(self.plot_mesh(), self.current_event_loop)
apply_and_render(ts) == [ts EXCEPT ![FreeTask] = "scheduled"]

\* whether the plotter shows the builder's current mesh after a step: a render
\* that ended reads builder.mesh as it is then; a change of the builder makes
\* the drawn mesh an earlier one; a cleared plotter shows none
Fresh(pl, op, kind) ==
  CASE pl = "empty" -> FALSE
    [] op = "plot_mesh" /\ kind = "ok" -> TRUE
    [] op = "_mesh_changed" -> FALSE
    [] OTHER -> fresh

ViewerBecomes(vs, ts, pl, op, kind, raised) ==
  /\ v_state' = vs
  /\ tasks' = ts
  /\ plotter' = pl
  /\ fresh' = Fresh(pl, op, kind)
  /\ last' = [op |-> op, kind |-> kind, accepted |-> FALSE, raised |-> raised,
              entry |-> <<>>]
  /\ UNCHANGED <<bvars, mirror, engine>>

ApplyAndRender ==
  /\ HasFreeTask
  /\ ViewerBecomes(v_state, apply_and_render(tasks), plotter,
                   "apply_and_render", None, None)
  /\ UNCHANGED has_data

\* a plot_mesh without the entry check
PlotMeshEnterUnchecked(t) ==
  /\ tasks[t] = "scheduled"
  /\ ViewerBecomes([v_state EXCEPT !.ui_error_message = None,
                                   !.ui_loading = TRUE,
                                   !.ui_unapplied_changes = FALSE],
                   [tasks EXCEPT ![t] = "sleeping"], plotter,
                   "plot_mesh", "entered", None)
  /\ UNCHANGED has_data

\* plot_mesh up to the await: the entry check and the first state block
PlotMeshEnter(t) ==
  /\ tasks[t] = "scheduled"
  /\ IF v_state.ui_loading
     THEN ViewerBecomes(v_state, [tasks EXCEPT ![t] = "idle"], plotter,
                        "plot_mesh", "dropped", None)
     ELSE ViewerBecomes([v_state EXCEPT !.ui_error_message = None,
                                        !.ui_loading = TRUE,
                                        !.ui_unapplied_changes = FALSE],
                        [tasks EXCEPT ![t] = "sleeping"], plotter,
                        "plot_mesh", "entered", None)
  /\ UNCHANGED has_data

\* what the calls of the second state block do: each may raise
RenderOutcomes ==
  {"ok", "data_range raises", "mesh raises", "warp_by_scalar raises",
   "add_mesh raises"}

\* plot_mesh after the await: lines 247-279
PlotMeshResume(t, outcome) ==
  /\ tasks[t] = "sleeping"
  /\ outcome = "warp_by_scalar raises" => v_state.render_scalar_warp
  /\ outcome = "ok" => has_data
  /\ CASE outcome = "data_range raises" ->
            ViewerBecomes(v_state, [tasks EXCEPT ![t] = "idle"], "empty",
                          "plot_mesh", outcome, "Exception")
       [] outcome = "mesh raises" ->
            ViewerBecomes([v_state EXCEPT !.ui_error_message = "mesh failed",
                                          !.ui_loading = FALSE],
                          [tasks EXCEPT ![t] = "idle"], "empty",
                          "plot_mesh", outcome, None)
       [] outcome \in {"warp_by_scalar raises", "add_mesh raises"} ->
            ViewerBecomes(v_state, [tasks EXCEPT ![t] = "idle"], "empty",
                          "plot_mesh", outcome, "Exception")
       [] outcome = "ok" ->
            ViewerBecomes([v_state EXCEPT !.ui_loading = FALSE],
                          [tasks EXCEPT ![t] = "idle"], "mesh",
                          "plot_mesh", outcome, None)
  /\ UNCHANGED has_data

\* DatasetViewer._mesh_changed, called with builder.data_array (not) None
_mesh_changed(vs, ts, da_is_none) ==
  IF da_is_none
  THEN [vs |-> [vs EXCEPT !.ui_unapplied_changes = FALSE, !.ui_loading = FALSE],
        ts |-> ts]
  ELSE [vs |-> [vs EXCEPT !.ui_error_message = None,
                          !.ui_unapplied_changes = TRUE,
                          !.ui_loading = FALSE],
        ts |-> IF vs.render_auto THEN apply_and_render(ts) ELSE ts]

\* a change of the builder reaches the viewer: the builder's data array is
\* now d (TRUE: an array, FALSE: None) and _mesh_changed runs
MeshChanged(d) ==
  /\ (d /\ v_state.render_auto) => HasFreeTask
  /\ has_data' = d
  /\ LET r == _mesh_changed(v_state, tasks, ~d)
     IN ViewerBecomes(r.vs, r.ts, plotter, "_mesh_changed", None, None)

\* DatasetViewer._data_array_changed: the plotter is cleared once per dimension
DataArrayChanged ==
  /\ ViewerBecomes(v_state, tasks, IF has_data THEN "empty" ELSE plotter,
                   "_data_array_changed", None, None)
  /\ UNCHANGED has_data

\* DatasetViewer._on_ready
OnReady ==
  /\ has_data => HasFreeTask
  /\ LET r == _mesh_changed([v_state EXCEPT !.render_auto = TRUE], tasks, ~has_data)
     IN ViewerBecomes(r.vs, r.ts, plotter, "_on_ready", None, None)
  /\ UNCHANGED has_data

\* DatasetViewer.set_render_options
SetRenderOptions(scalar_warp) ==
  /\ has_data => HasFreeTask
  /\ ViewerBecomes([v_state EXCEPT !.render_scalar_warp = scalar_warp],
                   IF has_data THEN apply_and_render(tasks) ELSE tasks,
                   plotter, "set_render_options", None, None)
  /\ UNCHANGED has_data

NextViewer ==
  \/ ApplyAndRender
  \/ \E t \in Tasks : PlotMeshEnter(t)
  \/ \E t \in Tasks, outcome \in RenderOutcomes : PlotMeshResume(t, outcome)
  \/ \E d \in BOOLEAN : MeshChanged(d)
  \/ DataArrayChanged
  \/ OnReady
  \/ \E w \in BOOLEAN : SetRenderOptions(w)

SpecViewer == Init /\ [][NextViewer]_vars

\* the event loop runs every coroutine it was handed: a scheduled plot_mesh
\* starts and a sleeping one resumes; requests and builder changes come from
\* the user and need not happen
SpecViewerLive ==
  /\ SpecViewer
  /\ \A t \in Tasks : WF_vars(PlotMeshEnter(t))
  /\ \A t \in Tasks : WF_vars(\E outcome \in RenderOutcomes : PlotMeshResume(t, outcome))

\* the viewer and its builder before an operation
Viewer == [builder |-> mirror.builder, ui |-> mirror.ui,
           pending |-> mirror.pending, attached |-> mirror.attached,
           built |-> mirror.built, vs |-> v_state, ts |-> tasks, pl |-> plotter]

\* self.builder.data_array
builder_data_array(bd) ==
  IF bd.dataset = None \/ bd.data_array_name = None THEN None
  ELSE bd.data_array_name

\* the state keys of the @change callbacks of DatasetViewer, in source order
WatchedKeys == <<"dataset_path", "da_active", "da_x", "da_y", "da_z", "da_t",
                 "da_t_index", "da_coordinates">>

\* self.state[key] = value in the viewer
UiWrite(w, key, value) ==
  IF w.ui[key] = value THEN w
  ELSE [w EXCEPT !.ui[key] = value,
                 !.pending = IF SeqContains(WatchedKeys, key)
                             THEN @ \cup {key} ELSE @]

\* DatasetViewer._dataset_changed; `if dataset:` is false for a dataset
\* without data variables; the attribute tables are left out
_dataset_changed(w) ==
  LET ds == w.builder.dataset
      w1 == UiWrite(w, "da_vars", <<>>)
  IN IF ds # None /\ Len(DataVars(ds)) > 0
     THEN [UiWrite(UiWrite(w1, "da_vars", DataVars(ds)), "dataset_ready", TRUE)
             EXCEPT !.vs.ui_loading = TRUE]
     ELSE UiWrite(w1, "dataset_ready", FALSE)

\* one entry of da_coordinates as _data_array_changed builds it
CoordinateInfo(bd, key) ==
  LET array_min == CoordMinMax(key)[1]
      array_max == CoordMinMax(key)[2]
      sliced == key \in DOMAIN bd.slicing
  IN [name |-> key, size |-> CoordSize(key), range |-> <<array_min, array_max>>,
      start |-> IF sliced THEN bd.slicing[key][1] ELSE array_min,
      stop |-> IF sliced THEN bd.slicing[key][2] ELSE array_max,
      step |-> IF sliced THEN bd.slicing[key][3] ELSE 1]

\* DatasetViewer._data_array_changed
_data_array_changed(w) ==
  LET bd == w.builder
      w1 == UiWrite(UiWrite(w, "da_coordinates", <<>>),
                    "ui_expanded_coordinates", <<>>)
  IN IF bd.dataset = None \/ bd.data_array_name = None THEN w1
     ELSE LET dims == Dims(bd.data_array_name)
          IN IF Len(dims) = 0 THEN w1
             ELSE [w1 EXCEPT
                     !.ui.da_coordinates =
                        [i \in 1..Len(dims) |-> CoordinateInfo(bd, dims[i])],
                     !.ui.ui_expanded_coordinates = dims,
                     !.pending = @ \cup {"da_coordinates"},
                     !.pl = "empty"]

\* DatasetViewer._data_slicing_changed: the entries are updated in place,
\* without a write of the key and without state.dirty
_data_slicing_changed(w) ==
  LET slicing == w.builder.slicing
      coords == w.ui.da_coordinates
      Updated(coord) ==
        IF coord.name \in DOMAIN slicing
        THEN [coord EXCEPT !.start = slicing[coord.name][1],
                           !.stop = slicing[coord.name][2],
                           !.step = slicing[coord.name][3]]
        ELSE coord
  IN [w EXCEPT !.ui.da_coordinates = [i \in 1..Len(coords) |-> Updated(coords[i])]]

\* DatasetViewer._time_index_changed: the text of time step t_index of
\* coordinate t is the pair <<t, t_index>>
_time_index_changed(w) ==
  LET bd == w.builder
  IN IF bd.dataset # None /\ bd.data_array_name # None /\ bd.t # None
     THEN UiWrite(w, "ui_current_time_string", <<bd.t, bd.t_index>>)
     ELSE w

\* DatasetViewer._mesh_changed on the viewer record
ViewerMeshChanged(w) ==
  LET da == builder_data_array(w.builder)
      r == _mesh_changed(w.vs, w.ts, da = None)
  IN [w EXCEPT !.ui.da_size = IF da = None THEN <<0>>
                              ELSE SizeLadder(TotalBytes(da), 3, @),
               !.vs = r.vs, !.ts = r.ts]

(***************************************************************************)
(* The setters of the builder the viewer works with, as described: the     *)
(* dataset setter loads the dataset and selects its first variable that is *)
(* not a bounds variable; the array setter resets the axes and the time    *)
(* index and runs the auto-selection; the other setters do nothing on an   *)
(* equal value; each tells the viewer the builder holds in _viewer.        *)
(***************************************************************************)
\* the axes the auto-selection gives an array, as <<x, y, z, t>>
AutoAxes(name) ==
  LET dims == Dims(name)
      st == [da_x |-> None, da_y |-> None, da_z |-> None, da_t |-> None,
             da_coordinates |-> [i \in 1..Len(dims) |-> [name |-> dims[i]]]]
      update == StateUpdate(st)
  IN [a \in 1..4 |-> IF update[a] = "absent" THEN None ELSE update[a]]

set_data_array_name(w, name) ==
  LET axes == IF w.builder.dataset = None \/ name = None
              THEN <<None, None, None, None>> ELSE AutoAxes(name)
      w1 == [w EXCEPT !.builder.data_array_name = name,
                      !.builder.x = axes[1], !.builder.y = axes[2],
                      !.builder.z = axes[3], !.builder.t = axes[4],
                      !.builder.t_index = 0]
  IN IF w1.attached THEN ViewerMeshChanged(_data_array_changed(w1)) ELSE w1

FirstDataVariable(ds) ==
  LET names == SelectSeq(DataVars(ds), LAMBDA var : ~IsBoundsVariable(var))
  IN IF Len(names) = 0 THEN None ELSE names[1]

set_builder_dataset_path(w, p) ==
  LET w1 == [w EXCEPT !.builder.dataset_path = p, !.builder.dataset = p]
      w2 == IF w1.attached THEN _dataset_changed(w1) ELSE w1
  IN set_data_array_name(w2, IF p = None THEN None ELSE FirstDataVariable(p))

set_axis(w, axis, value) ==
  IF w.builder[axis] = value THEN w
  ELSE LET w1 == [w EXCEPT !.builder[axis] = value]
       IN IF w1.attached THEN ViewerMeshChanged(w1) ELSE w1

set_t_index(w, t_index) ==
  IF w.builder.t_index = t_index THEN w
  ELSE LET w1 == [w EXCEPT !.builder.t_index = t_index]
       IN IF w1.attached THEN ViewerMeshChanged(_time_index_changed(w1)) ELSE w1

set_slicing(w, slicing) ==
  IF w.builder.slicing = slicing THEN w
  ELSE LET w1 == [w EXCEPT !.builder.slicing = slicing]
       IN IF w1.attached THEN ViewerMeshChanged(_data_slicing_changed(w1)) ELSE w1

(***************************************************************************)
(* The @change callbacks of DatasetViewer and the flush that runs them.     *)
(***************************************************************************)
\* the callback registered on one key
OnChange(w, key) ==
  CASE key = "dataset_path" -> set_builder_dataset_path(w, w.ui.dataset_path)
    [] key = "da_active" -> set_data_array_name(w, w.ui.da_active)
    [] key = "da_x" -> set_axis(w, "x", w.ui.da_x)
    [] key = "da_y" -> set_axis(w, "y", w.ui.da_y)
    [] key = "da_z" -> set_axis(w, "z", w.ui.da_z)
    [] key = "da_t" -> set_axis(w, "t", w.ui.da_t)
    [] key = "da_t_index" -> set_t_index(w, w.ui.da_t_index)
    [] key = "da_coordinates" -> set_slicing(w, SlicingOf(w.ui.da_coordinates))

RECURSIVE RunCallbacks(_, _, _)
RunCallbacks(w, fired, i) ==
  IF i > Len(WatchedKeys) THEN w
  ELSE RunCallbacks(IF WatchedKeys[i] \in fired THEN OnChange(w, WatchedKeys[i])
                    ELSE w,
                    fired, i + 1)

RECURSIVE ViewerFlushRounds(_, _)
\* State.flush: rounds until no key is dirty
ViewerFlushRounds(w, n) ==
  IF w.pending = {} \/ n = 0 THEN w
  ELSE ViewerFlushRounds(RunCallbacks([w EXCEPT !.pending = {}], w.pending, 1),
                         n - 1)

(***************************************************************************)
(* The methods of DatasetViewer bound to the UI.                            *)
(***************************************************************************)
_coordinate_select_axis(w, coordinate_name, current_axis, new_axis) ==
  LET w1 == IF current_axis # None /\ Truthy(w.ui[current_axis])
            THEN UiWrite(w, current_axis, None) ELSE w
  IN IF new_axis # None /\ new_axis # "undefined"
     THEN UiWrite(w1, new_axis, coordinate_name) ELSE w1

_coordinate_change_slice(w, coordinate_name, slice_attribute_name, value) ==
  LET coords == w.ui.da_coordinates
  IN IF IsNumeric(value) /\ \E i \in 1..Len(coords) : coords[i].name = coordinate_name
     THEN LET coord_i == CHOOSE i \in 1..Len(coords) :
                           /\ coords[i].name = coordinate_name
                           /\ \A j \in 1..(i - 1) : coords[j].name # coordinate_name
              accepted == IF slice_attribute_name = "step"
                          THEN StepAccepted(ToFloat(value), coords[coord_i])
                          ELSE BoundAccepted(ToFloat(value), coords[coord_i])
          IN [w EXCEPT !.ui.da_coordinates[coord_i][slice_attribute_name] =
                          IF accepted THEN ToFloat(value) ELSE @,
                       !.pending = @ \cup {"da_coordinates"}]
     ELSE w

(***************************************************************************)
(* The viewer and its builder as a state machine.                           *)
(***************************************************************************)
MirrorBecomes(w, op) ==
  /\ mirror' = [builder |-> w.builder, ui |-> w.ui, pending |-> w.pending,
                attached |-> w.attached, built |-> w.built]
  /\ v_state' = w.vs
  /\ tasks' = w.ts
  /\ plotter' = w.pl
  /\ fresh' = (fresh /\ w.pl = "mesh" /\ w.builder = mirror.builder)
  /\ has_data' = (builder_data_array(w.builder) # None)
  /\ last' = [op |-> op, kind |-> None, accepted |-> FALSE, raised |-> None,
              entry |-> <<>>]
  /\ UNCHANGED <<bvars, engine>>

\* DatasetViewer.__init__: around the builder passed in, or (passed = FALSE)
\* around a new one, which then holds the viewer in _viewer; a builder that
\* was passed in holds the viewer when it paired itself with it
NewViewer(passed, paired) ==
  /\ ~mirror.built
  /\ ~passed => paired
  /\ LET w == [Viewer EXCEPT !.builder = IF passed THEN @ ELSE NewBuilder,
                             !.attached = paired,
                             !.built = TRUE,
                             !.ui = initial_ui,
                             !.pending = {}]
     IN MirrorBecomes(ViewerMeshChanged(_time_index_changed(
                        _data_array_changed(_dataset_changed(w)))),
                      "DatasetViewer")

\* the datasets the viewer is run on
MirrorPaths == {"grid"}

BuilderSetDatasetPath(p) ==
  /\ p \in MirrorPaths \cup {None}
  /\ MirrorBecomes(set_builder_dataset_path(Viewer, p), "builder.dataset_path")

BuilderSetDataArrayName(i) ==
  /\ mirror.builder.dataset # None
  /\ i \in 1..Len(DataVars(mirror.builder.dataset))
  /\ MirrorBecomes(set_data_array_name(Viewer, DataVars(mirror.builder.dataset)[i]),
                   "builder.data_array_name")

BuilderSetAxis(axis, i) ==
  /\ axis \in {"x", "y", "z", "t"}
  /\ builder_data_array(mirror.builder) # None
  /\ i \in 0..Len(Dims(mirror.builder.data_array_name))
  /\ MirrorBecomes(set_axis(Viewer, axis,
                            IF i = 0 THEN None
                            ELSE Dims(mirror.builder.data_array_name)[i]),
                   "builder.axis")

BuilderSetTimeIndex(t_index) ==
  /\ t_index \in 0..MaxTimeIndex
  /\ MirrorBecomes(set_t_index(Viewer, t_index), "builder.t_index")

\* a slicing of the first dimension of the active array: its whole range, or
\* its first value only
SlicingInput(bd, kind) ==
  LET key == Dims(bd.data_array_name)[1]
  IN [n \in {key} |-> <<CoordMinMax(key)[1],
                        IF kind = "whole" THEN CoordMinMax(key)[2]
                        ELSE CoordMinMax(key)[1],
                        1>>]

BuilderSetSlicing(kind) ==
  /\ builder_data_array(mirror.builder) # None
  /\ kind \in {"whole", "first"}
  /\ MirrorBecomes(set_slicing(Viewer, SlicingInput(mirror.builder, kind)),
                   "builder.slicing")

\* the array select of the main drawer, and the flush of the request
ClientSelectArray(i) ==
  /\ mirror.built
  /\ i \in 1..Len(mirror.ui.da_vars)
  /\ MirrorBecomes(ViewerFlushRounds(UiWrite(Viewer, "da_active", mirror.ui.da_vars[i]),
                                     MaxRounds),
                   "select array")

\* the axis select of a coordinate's panel, and the flush of the request
ClientSelectAxis(i, current_axis, new_axis) ==
  /\ mirror.built
  /\ i \in 1..Len(mirror.ui.da_coordinates)
  /\ IF current_axis = "undefined"
     THEN \A a \in 1..4 : mirror.ui[AxisKeys[a]] # mirror.ui.da_coordinates[i].name
     ELSE mirror.ui[current_axis] = mirror.ui.da_coordinates[i].name
  /\ MirrorBecomes(ViewerFlushRounds(
                     _coordinate_select_axis(Viewer, mirror.ui.da_coordinates[i].name,
                                             IF current_axis = "undefined" THEN None
                                             ELSE current_axis,
                                             new_axis),
                     MaxRounds),
                   "_coordinate_select_axis")

\* a slice field of a coordinate's panel, and the flush of the request
ClientChangeSlice(i, slice_attribute_name, value) ==
  /\ mirror.built
  /\ i \in 1..Len(mirror.ui.da_coordinates)
  /\ MirrorBecomes(ViewerFlushRounds(
                     _coordinate_change_slice(Viewer, mirror.ui.da_coordinates[i].name,
                                              slice_attribute_name, value),
                     MaxRounds),
                   "_coordinate_change_slice")

\* a flush of the keys the viewer's methods left dirty
ViewerFlush ==
  /\ mirror.built
  /\ mirror.pending # {}
  /\ MirrorBecomes(ViewerFlushRounds(Viewer, MaxRounds), "flush")

NextMirror ==
  \/ \E passed \in BOOLEAN, paired \in BOOLEAN : NewViewer(passed, paired)
  \/ \E p \in MirrorPaths \cup {None} : BuilderSetDatasetPath(p)
  \/ \E i \in 1..2 : BuilderSetDataArrayName(i)
  \/ \E i \in 0..1 : BuilderSetAxis("x", i)
  \/ \E t_index \in 0..MaxTimeIndex : BuilderSetTimeIndex(t_index)
  \/ \E kind \in {"whole", "first"} : BuilderSetSlicing(kind)
  \/ \E i \in 1..2 : ClientSelectArray(i)
  \/ \E cur \in {"da_x", "undefined"}, new \in {"da_x", "undefined"} :
       ClientSelectAxis(1, cur, new)
  \/ \E a \in {"start", "step"} : ClientChangeSlice(1, a, <<"2">>)
  \/ ViewerFlush

SpecMirror == Init /\ [][NextMirror]_vars

(***************************************************************************)
(* MeshBuilder and MeshViewer (pan3d/viewer/engine.py).                     *)
(***************************************************************************)
\* the keys MeshBuilder.__init__ listens to, in registration order
EngineKeys == <<"array_active", "grid_x_array", "grid_y_array", "grid_z_array",
                "grid_t_array", "time_index", "dataset_path">>

\* self._state.<key> = value
EngineWrite(e, key, value) ==
  IF e[key] = value THEN e
  ELSE [e EXCEPT ![key] = value,
                 !.pending = IF SeqContains(EngineKeys, key) THEN @ \cup {key}
                             ELSE @]

\* what one call of MeshViewer.reset meets
ResetOutcomes == {"ok", "AttributeError", "validate_mesh raises", "add_mesh raises"}

\* MeshViewer.reset
MeshViewerReset(e, outcome) ==
  IF e.array_active = None THEN e
  ELSE CASE outcome = "ok" -> [e EXCEPT !.plotter = "mesh"]
         [] outcome = "AttributeError" -> e
         [] outcome = "validate_mesh raises" ->
              EngineWrite(e, "error_message", "mesh failed")
         [] outcome = "add_mesh raises" ->
              EngineWrite([e EXCEPT !.plotter = "empty"], "error_message",
                          "mesh failed")

\* MeshBuilder.clear_dataset
clear_dataset(e) ==
  [cleared_engine EXCEPT !.dataset = e.dataset, !.time_index = e.time_index,
                         !.plotter = e.plotter,
                         !.pending = e.pending \cup
                           {EngineKeys[i] : i \in {j \in 1..Len(EngineKeys) :
                              e[EngineKeys[j]] # cleared_engine[EngineKeys[j]]
                              /\ EngineKeys[j] # "time_index"}}]

\* MeshBuilder.set_dataset_path: a path that is a URL or a file is opened as a
\* zarr store, which fails for the paths of this model
engine_set_dataset_path(e) ==
  IF e.dataset_path = None THEN e
  ELSE IF IsUrlOrFile(e.dataset_path)
  THEN EngineWrite(e, "error_message", "open failed")
  ELSE LET e1 == [e EXCEPT !.dataset = e.dataset_path]
           e2 == EngineWrite(EngineWrite(EngineWrite(e1, "data_vars",
                                                     DataVars(e1.dataset)),
                                         "coordinates", <<>>),
                             "dataset_ready", TRUE)
       IN IF Len(e2.data_vars) > 0
          THEN EngineWrite(e2, "array_active", e2.data_vars[1])
          ELSE EngineWrite(e2, "no_data_vars", TRUE)

\* MeshBuilder.on_active_array
on_active_array(e, outcome) ==
  IF e.array_active = None \/ ~e.dataset_ready THEN e
  ELSE MeshViewerReset(
         EngineWrite(EngineWrite(EngineWrite(EngineWrite(
           EngineWrite(e, "coordinates", Dims(e.array_active)),
           "grid_x_array", None), "grid_y_array", None), "grid_z_array", None),
           "grid_t_array", None),
         outcome)

\* MeshBuilder.bind_t
bind_t(e, outcome) ==
  MeshViewerReset(IF e.grid_t_array # None
                  THEN EngineWrite(e, "time_max", CoordSize(e.grid_t_array) - 1)
                  ELSE e,
                  outcome)

\* the callback of one key
EngineOnChange(e, key, outcome) ==
  CASE key = "array_active" -> on_active_array(e, outcome)
    [] key \in {"grid_x_array", "grid_y_array", "grid_z_array"} ->
         MeshViewerReset(e, outcome)
    [] key = "grid_t_array" -> bind_t(e, outcome)
    [] key = "time_index" -> e
    [] key = "dataset_path" -> engine_set_dataset_path(e)

RECURSIVE EngineRun(_, _, _, _)
EngineRun(e, fired, i, outcome) ==
  IF i > Len(EngineKeys) THEN e
  ELSE EngineRun(IF EngineKeys[i] \in fired
                 THEN EngineOnChange(e, EngineKeys[i], outcome) ELSE e,
                 fired, i + 1, outcome)

RECURSIVE EngineFlush(_, _, _)
\* State.flush: rounds until no key is dirty; every reset of the flush meets
\* the same outcome
EngineFlush(e, n, outcome) ==
  IF e.pending = {} \/ n = 0 THEN e
  ELSE EngineFlush(EngineRun([e EXCEPT !.pending = {}], e.pending, 1, outcome),
                   n - 1, outcome)

EngineBecomes(e, op, kind) ==
  /\ engine' = e
  /\ last' = [op |-> op, kind |-> kind, accepted |-> FALSE, raised |-> None,
              entry |-> <<>>]
  /\ UNCHANGED <<bvars, vvars, mirror>>

\* the values a client writes to a key
EngineInputs(key) ==
  CASE key = "dataset_path" -> {"air", "grid", "https://bad"}
    [] key = "array_active" ->
         {engine.data_vars[i] : i \in 1..Len(engine.data_vars)}
    [] key \in {"grid_x_array", "grid_t_array"} ->
         {engine.coordinates[i] : i \in 1..Len(engine.coordinates)} \cup {None}
    [] key = "time_index" -> 0..engine.time_max
    [] OTHER -> {}

\* a widget writes one key, and the request is flushed
EngineClientWrite(key, value, outcome) ==
  /\ value \in EngineInputs(key)
  /\ EngineBecomes(EngineFlush(EngineWrite(engine, key, value), MaxRounds, outcome),
                   "write", outcome)

\* the clear button of the dataset field
EngineClearDataset(outcome) ==
  /\ outcome \in ResetOutcomes
  /\ EngineBecomes(EngineFlush(clear_dataset(engine), MaxRounds, outcome),
                   "clear_dataset", outcome)

\* the button bound to ctrl.reset
EngineReset(outcome) ==
  /\ engine.array_active # None
  /\ EngineBecomes(MeshViewerReset(engine, outcome), "reset", outcome)

NextEngine ==
  \/ \E key \in {"dataset_path", "array_active", "grid_x_array", "grid_t_array"},
        value \in {None, "air", "grid", "https://bad", "v1", "v2", "g1", "g2",
                   "Time", "lat", "latlon", "ylat", "band"},
        outcome \in ResetOutcomes :
       EngineClientWrite(key, value, outcome)
  \/ \E index \in 0..MaxTimeIndex : EngineClientWrite("time_index", index, "ok")
  \/ \E outcome \in ResetOutcomes : EngineClearDataset(outcome)
  \/ \E outcome \in ResetOutcomes : EngineReset(outcome)

SpecEngine == Init /\ [][NextEngine]_vars

(***************************************************************************)
(* Properties.                                                              *)
(***************************************************************************)
WithinRange(coordinate) ==
  /\ coordinate.range[1] <= coordinate.start
  /\ coordinate.start <= coordinate.stop
  /\ coordinate.stop <= coordinate.range[2]
  /\ 0 < coordinate.step
  /\ coordinate.step < coordinate.size

\* C1: after an accepted slice edit on coordinate lists that were built for the
\* active array and changed by slice edits only, every coordinate has
\* range[0] <= start <= stop <= range[1] and 0 < step < size.
C1_SliceEditsKeepRange ==
  (last.op = "coordinate_change_slice" /\ last.accepted)
    => \A i \in 1..Len(state.da_coordinates) : WithinRange(state.da_coordinates[i])

\* a step that is import_config applied to export_config of the state before it
RoundTripStep == last'.op = "import_config" /\ last'.kind = "export"

\* C2: import_config of the exported config of a builder with a loaded dataset
\* ends with dataset_path, da_active and every axis that was non-null at export
\* time equal to their exported values.
C2_RoundTripOriginActiveAxes ==
  [][(RoundTripStep /\ dataset # None)
       => /\ state'.dataset_path = state.dataset_path
          /\ state'.da_active = state.da_active
          /\ \A a \in 1..4 : state[AxisKeys[a]] # None
                               => state'[AxisKeys[a]] = state[AxisKeys[a]]]_vars

\* a round trip has switched from the first array back to the exported one
C2_Witness ==
  /\ last.op = "import_config" /\ last.kind = "export" /\ last.accepted
  /\ last.raised = None
  /\ state.da_active = "v2"
  /\ state.da_t = "Time"

\* C3: import_config of the exported config of a state whose da_t_index is
\* nonzero ends with da_t_index equal to the exported t_index.
C3_RoundTripTimeIndex ==
  [][(RoundTripStep /\ state.da_t_index # 0)
       => state'.da_t_index = state.da_t_index]_vars

\* the start, stop and step of every coordinate, by position
Slices(da_coordinates) ==
  [i \in 1..Len(da_coordinates) |->
     <<da_coordinates[i].name, da_coordinates[i].start, da_coordinates[i].stop,
       da_coordinates[i].step>>]

\* C4: import_config of the exported config ends with every coordinate's
\* start, stop and step, and the slicing map derived from them, equal to the
\* values at export time.
C4_RoundTripSlicing ==
  [][RoundTripStep
       => /\ Slices(state'.da_coordinates) = Slices(state.da_coordinates)
          /\ \A n \in DOMAIN SlicingOf(state.da_coordinates) :
               /\ n \in DOMAIN state'.slicing
               /\ state'.slicing[n] = SlicingOf(state.da_coordinates)[n]]_vars

\* every field of the builder but the action message
Untouched ==
  /\ dataset' = dataset
  /\ pending' = pending
  /\ [state' EXCEPT !.ui_action_message = None]
       = [state EXCEPT !.ui_action_message = None]

\* C5: import_config of a config without data_origin or without data_array sets
\* the 'Invalid format' action message and changes nothing else.
C5_InvalidImportChangesNothing ==
  [][(last'.op = "import_config" /\ last'.kind \in {"no_origin", "no_array"})
       => /\ state'.ui_action_message = "Invalid format of import file."
          /\ Untouched]_vars

\* an import without data_array was refused on a builder with edited state
C5_Witness ==
  /\ last.op = "import_config" /\ last.kind = "no_array"
  /\ state.ui_action_message = "Invalid format of import file."
  /\ dataset = "air" /\ state.da_active = "v2" /\ state.da_t_index = 1

\* C6: at most one plot_mesh execution is between its entry check and its end.
C6_OnePlotMeshInProgress ==
  Cardinality({t \in Tasks : tasks[t] = "sleeping"}) <= 1

\* C7: a plot_mesh execution that set ui_loading to true sets it back to
\* false, whether its render steps succeed or raise: ui_loading is never left
\* true forever.
C7_LoadingEventuallyCleared == v_state.ui_loading ~> ~v_state.ui_loading

\* C8: when set_data_array_active_name enters auto-axis-selection, the axes are
\* null and the time index is 0.
C8_SwitchResetsAxes ==
  (last.op = "set_data_array_active_name" /\ last.entry # <<>>)
    => last.entry = <<None, None, None, None, 0>>

\* C9: auto_select_coordinates changes nothing when an axis is non-null.
C9_AutoSelectNoOpWhenAssigned ==
  [][(last'.op = "auto_select_coordinates"
        /\ \E a \in 1..4 : state[AxisKeys[a]] # None)
       => /\ state' = state
          /\ dataset' = dataset
          /\ pending' = pending]_vars

\* auto_select_coordinates ran with the user's pick (lat on T, Y cleared) in place
C9_Witness ==
  /\ last.op = "auto_select_coordinates"
  /\ state.da_active = "v1"
  /\ state.da_t = "lat" /\ state.da_y = None /\ state.da_x = None
  /\ state.da_z = None

\* the axes whose keywords the coordinate's lower-cased name matches
MatchingAxes(coordinate) ==
  {a \in 1..4 : Len(NameMatch(coordinate, coordinate_auto_selection[a].accepted)) > 0}

\* C10: auto-selection from an all-null assignment gives a dimension that
\* matches several axes to the first of them in the order x, y, z, t and to no
\* other matching axis.
C10_FirstMatchingAxisOnly ==
  [][(last'.op = "auto_select_coordinates"
        /\ \A a \in 1..4 : state[AxisKeys[a]] = None)
       => \A i \in 1..Len(state.da_coordinates) :
            LET m == MatchingAxes(state.da_coordinates[i]) IN
            Cardinality(m) > 1
              => \A a \in m :
                   (state'[AxisKeys[a]] = state.da_coordinates[i].name)
                     <=> (\A a2 \in m : a <= a2)]_vars

\* no axis is assigned
AllNull(st) == \A a \in 1..4 : st[AxisKeys[a]] = None

\* the positions of the dimensions that match the keywords of axis a
MatchingDims(st, a) ==
  {i \in 1..Len(st.da_coordinates) :
     Len(NameMatch(st.da_coordinates[i], coordinate_auto_selection[a].accepted)) > 0}

\* C11: in auto-selection from an all-null assignment, when two dimensions of
\* the active array match the keywords of the same axis, the axis ends up
\* holding the earlier of them in dimension order.
C11_EarlierDimensionKeepsAxis ==
  [][(last'.op = "auto_select_coordinates" /\ AllNull(state))
       => \A a \in 1..4 :
            LET m == MatchingDims(state, a) IN
            Cardinality(m) > 1
              => state'[AxisKeys[a]]
                   = state.da_coordinates[CHOOSE i \in m : \A j \in m : i <= j].name]_vars

\* the positions of the dimensions that match no keyword of any axis
UnmatchedDims(st) ==
  {i \in 1..Len(st.da_coordinates) : \A a \in 1..4 : i \notin MatchingDims(st, a)}

\* C12: after auto-selection from an all-null assignment on an array with n
\* dimensions, every dimension that matched no keyword is on an axis, and
\* min(n, 4) axes are non-null.
C12_PositionalFallback ==
  [][(last'.op = "auto_select_coordinates" /\ AllNull(state))
       => /\ \A i \in UnmatchedDims(state) :
               \E a \in 1..4 : state'[AxisKeys[a]] = state.da_coordinates[i].name
          /\ Cardinality({a \in 1..4 : state'[AxisKeys[a]] # None})
               = (IF Len(state.da_coordinates) < 4
                  THEN Len(state.da_coordinates) ELSE 4)]_vars

\* the keyword lists X:{x,i,lon,len}, Y:{y,j,lat,width}, Z:{z,k,depth,height},
\* T:{t,time}
Keywords ==
  << { <<"x">>, <<"i">>, <<"l", "o", "n">>, <<"l", "e", "n">> },
     { <<"y">>, <<"j">>, <<"l", "a", "t">>, <<"w", "i", "d", "t", "h">> },
     { <<"z">>, <<"k">>, <<"d", "e", "p", "t", "h">>, <<"h", "e", "i", "g", "h", "t">> },
     { <<"t">>, <<"t", "i", "m", "e">> } >>

\* the lower-cased name equals a single-letter keyword of the axis or contains
\* one of its multi-letter keywords
KeywordMatch(a, dimension) ==
  LET name == Lower(Spell(dimension)) IN
  \E k \in Keywords[a] :
    IF Len(k) = 1 THEN name = k
    ELSE \E i \in 1..Len(name), j \in 1..Len(name) : SubSeq(name, i, j) = k

\* C13: in auto-selection from an all-null assignment, an axis receives a
\* dimension if and only if some dimension's lower-cased name equals one of
\* the axis's single-letter keywords or contains one of its multi-letter
\* keywords, and the dimension it receives is such a dimension.
C13_KeywordMatchRule ==
  [][(last'.op = "auto_select_coordinates" /\ AllNull(state))
       => \A a \in 1..4 :
            LET matches == {i \in 1..Len(state.da_coordinates) :
                              KeywordMatch(a, state.da_coordinates[i].name)}
            IN IF matches = {} THEN state'[AxisKeys[a]] = None
               ELSE \E i \in matches :
                      state'[AxisKeys[a]] = state.da_coordinates[i].name]_vars

\* auto-selection ran on the array with dimensions band and Time: Time, which
\* contains the letters i and t, is on T only and band is on no axis
C13_Witness ==
  /\ last.op = "auto_select_coordinates"
  /\ state.da_active = "g2"
  /\ state.da_t = "Time" /\ state.da_x = None /\ state.da_y = None
  /\ state.da_z = None

\* C18: after a successful load of a dataset with a data variable that is not
\* a bounds variable, the active array is the first such variable in dataset
\* order.
C18_FirstNonBoundsVariableActive ==
  [][(/\ last'.op = "set_dataset_path"
      /\ dataset' # None /\ dataset' = state'.dataset_path
      /\ \E i \in 1..Len(DataVars(dataset')) : ~IsBoundsVariable(DataVars(dataset')[i]))
       => LET vars_ == DataVars(dataset')
              first == CHOOSE i \in 1..Len(vars_) :
                         /\ ~IsBoundsVariable(vars_[i])
                         /\ \A j \in 1..(i - 1) : IsBoundsVariable(vars_[j])
          IN state'.da_active = vars_[first]]_vars

\* ten times the number a typed text stands for (1.5 is 15)
TenTimes(value) ==
  CASE value = <<"-", "1">> -> -10
    [] value = <<"1", ".", "5">> -> 15
    [] OTHER -> 10 * ToFloat(value)

\* an edit that is invalid: no number, an unknown coordinate, a step outside
\* (0, size), or a start or stop outside [range[0], range[1]]
InvalidEdit(st, coordinate_name, slice_attribute_name, value) ==
  \/ value = <<"a">>
  \/ \A i \in 1..Len(st.da_coordinates) : st.da_coordinates[i].name # coordinate_name
  \/ \E i \in 1..Len(st.da_coordinates) :
       /\ st.da_coordinates[i].name = coordinate_name
       /\ IF slice_attribute_name = "step"
          THEN ~(0 < TenTimes(value) /\ TenTimes(value) < 10 * st.da_coordinates[i].size)
          ELSE ~(/\ 10 * st.da_coordinates[i].range[1] <= TenTimes(value)
                 /\ TenTimes(value) <= 10 * st.da_coordinates[i].range[2])

\* C14: an invalid slice edit leaves start, stop and step of every coordinate
\* unchanged, and any slice edit changes at most the named attribute of the
\* named coordinate.
C14_InvalidEditsRejected ==
  \A c \in AllDims \cup {"depth"}, attr \in SliceAttributes, value \in ValueInputs :
    LET after == coordinate_change_slice(Builder, c, attr, value).state.da_coordinates
    IN /\ InvalidEdit(state, c, attr, value)
            => Slices(after) = Slices(state.da_coordinates)
       /\ Len(after) = Len(state.da_coordinates)
       /\ \A i \in 1..Len(after), other \in SliceAttributes :
            (after[i].name # c \/ other # attr)
              => after[i][other] = state.da_coordinates[i][other]

\* an edit was rejected on a list that holds an earlier accepted edit
C14_Witness ==
  /\ last.op = "coordinate_change_slice" /\ ~last.accepted
  /\ state.da_active = "v1" /\ Len(state.da_coordinates) = 2
  /\ state.da_coordinates[2].stop = 1

\* the keyword arguments that repeat the current axes, for every choice of
\* the axes passed
SameAxisNames ==
  {[k \in K |-> state[AxisKeyOf(k)]] : K \in SUBSET {"x", "y", "z", "t"}}

\* C15: set_data_array_axis_names, set_data_array_time_index and
\* set_data_array_coordinates perform no state write at all when called with
\* values equal to the current ones.
C15_SettersWriteNothingOnEqual ==
  /\ \A kw \in SameAxisNames : set_data_array_axis_names(Builder, kw) = Builder
  /\ set_data_array_time_index(Builder, state.da_t_index) = Builder
  /\ set_data_array_coordinates(Builder, state.da_coordinates) = Builder

\* C16: when opening the dataset fails in set_dataset_path on a builder with
\* a loaded dataset, the exception text is in the UI error field, and the
\* loaded dataset, dataset_path, variable list, coordinate list, axis
\* assignment and time index are as before the call.
C16_FailedLoadKeepsState ==
  \A p \in Paths :
    (dataset # None /\ IsUrlOrFile(p) /\ ~Opens(p))
      => LET after == set_dataset_path(Builder, p) IN
         /\ after.state.ui_error_message # None
         /\ after.dataset = dataset
         /\ after.state.dataset_path = state.dataset_path
         /\ after.state.da_vars = state.da_vars
         /\ after.state.da_coordinates = state.da_coordinates
         /\ AxesOf(after.state) = AxesOf(state)

\* C17: the data_array section of the exported config has the key x, y, z or
\* t exactly when that axis is non-null, with the axis's coordinate name as
\* value, and the key t_index exactly when the time index is nonzero;
\* data_origin is the current dataset path.
C17_ExportedAxesAndTimeIndex ==
  LET config == export_config(state)
      data_array == config["data_array"]
  IN /\ config["data_origin"] = state.dataset_path
     /\ \A a \in 1..4 :
          /\ (AxisLetters[a] \in DOMAIN data_array) <=> (state[AxisKeys[a]] # None)
          /\ (AxisLetters[a] \in DOMAIN data_array)
               => data_array[AxisLetters[a]] = state[AxisKeys[a]]
     /\ ("t_index" \in DOMAIN data_array) <=> (state.da_t_index # 0)

\* an export with the Y axis cleared and the time index moved: y is left out,
\* t and t_index are written
C17_Witness ==
  /\ state.da_active = "v1"
  /\ state.da_y = None /\ state.da_t = "Time" /\ state.da_t_index = 1
  /\ DOMAIN export_config(state)["data_array"] = {"active", "t", "t_index"}
  /\ export_config(state)["data_array"]["t_index"] = 1

\* round(n / 1024^e) with the unit of the largest e in 0..3 whose divisor
\* 1024^e the byte count n exceeds
Described(n) ==
  LET e == CHOOSE e \in 0..3 : n > 1024 ^ e /\ \A e2 \in (e + 1)..3 : ~(n > 1024 ^ e2)
  IN <<Round(n, 1024 ^ e), exponents_map[e + 1]>>

\* C19: after mesh_changed with an active array of n bytes, da_size is
\* round(n / 1024^e) with the unit of the largest e whose divisor n exceeds;
\* when n exceeds no divisor, da_size is not the text of an array of another
\* size.
C19_SizeDescribesActiveArray ==
  (dataset # None /\ HasVar(dataset, state.da_active))
    => LET n == TotalBytes(state.da_active)
           after == mesh_changed(Builder).state.da_size
       IN IF n > 1 THEN after = Described(n)
          ELSE \A i \in 1..Len(DataVars(dataset)) :
                 TotalBytes(DataVars(dataset)[i]) > 1
                   => after # Described(TotalBytes(DataVars(dataset)[i]))

\* the UI state keys of m equal the builder's fields
Mirrored(m) ==
  /\ m.ui.da_active = m.builder.data_array_name
  /\ m.ui.da_x = m.builder.x
  /\ m.ui.da_y = m.builder.y
  /\ m.ui.da_z = m.builder.z
  /\ m.ui.da_t = m.builder.t
  /\ m.ui.da_t_index = m.builder.t_index
  /\ \A i \in 1..Len(m.ui.da_coordinates) :
       LET coord == m.ui.da_coordinates[i]
       IN coord.name \in DOMAIN m.builder.slicing
            => <<coord.start, coord.stop, coord.step>> = m.builder.slicing[coord.name]

\* C20: once a DatasetViewer is constructed around a builder, after the
\* construction and after every change made on the builder, da_active, da_x,
\* da_y, da_z, da_t, da_t_index and the start, stop and step of each
\* coordinate equal the builder's array name, x, y, z, t, t_index and slicing.
C20_ViewerMirrorsBuilder ==
  (/\ mirror.built
   /\ last.op \in {"DatasetViewer", "builder.dataset_path",
                   "builder.data_array_name", "builder.axis",
                   "builder.t_index", "builder.slicing"})
    => Mirrored(mirror)

\* the UI states of a viewer for every set of axes that hold a name
ViewersOfAxes ==
  {[Viewer EXCEPT !.ui.da_x = ax[1], !.ui.da_y = ax[2], !.ui.da_z = ax[3],
                  !.ui.da_t = ax[4]] : ax \in [1..4 -> {None, "lat"}]}

\* C21: the axis pick called with (coordinate c, current axis a, new axis b)
\* leaves c in b and null in a (unless a = b), clears only a when b is empty
\* or "undefined", and leaves the axes other than a and b unchanged; in the
\* builder and in the viewer.
C21_AxisPickClearsThenSets ==
  /\ \A c \in AllDims, a \in AxisChoices, b \in AxisChoices \cup {""} :
       LET after == coordinate_select_axis(Builder, c, a, b).state
       IN \A k \in 1..4 :
            after[AxisKeys[k]] =
              IF AxisKeys[k] = b THEN c
              ELSE IF AxisKeys[k] = a THEN None
              ELSE state[AxisKeys[k]]
  /\ \A w \in ViewersOfAxes :
       \A c \in {"lat", "Time"}, a \in AxisChoices, b \in AxisChoices \cup {""} :
         LET after == _coordinate_select_axis(w, c,
                                              IF a = "undefined" THEN None ELSE a,
                                              IF b = "" THEN None ELSE b).ui
         IN \A k \in 1..4 :
              after[AxisKeys[k]] =
                IF AxisKeys[k] = b THEN c
                ELSE IF AxisKeys[k] = a THEN None
                ELSE w.ui[AxisKeys[k]]

\* "lat" was moved from the Y axis, where the auto-selection put it, to X
C21_Witness ==
  /\ last.op = "coordinate_select_axis"
  /\ state.da_active = "v1"
  /\ state.da_x = "lat" /\ state.da_y = None /\ state.da_t = "Time"

\* C22: a plot_mesh that starts while ui_loading is true changes no state
\* field and not the plotter, and its coroutine has ended: nothing is left
\* that would run it again.
C22_PlotMeshDroppedWhileLoading ==
  [][\A t \in Tasks :
       (/\ last'.op = "plot_mesh"
        /\ tasks[t] = "scheduled" /\ tasks'[t] # "scheduled"
        /\ v_state.ui_loading)
         => /\ v_state' = v_state
            /\ plotter' = plotter
            /\ tasks' = [tasks EXCEPT ![t] = "idle"]]_vars

\* a plot_mesh was dropped while another one sleeps in its delay
C22_Witness ==
  /\ last.op = "plot_mesh" /\ last.kind = "dropped"
  /\ v_state.ui_loading
  /\ \E t \in Tasks : tasks[t] = "sleeping"
  /\ \E t \in Tasks : tasks[t] = "idle"

\* C23: when a render attempt ends without a failure of the mesh build, the
\* UI error text is null; here for MeshViewer.reset.
C23_ErrorTextOfLastAttemptOnly ==
  (last.op = "reset" /\ last.kind = "ok") => engine.error_message = None

\* C24: after a dataset was loaded, no_da_vars is true exactly when the loaded
\* dataset has no data variables.
C24_NoVariablesFlagOfLoadedDataset ==
  (last.op = "set_dataset_path" /\ last.raised = None
   /\ dataset # None /\ dataset = state.dataset_path)
    => (state.no_da_vars <=> Len(DataVars(dataset)) = 0)

\* C25: the non-null values of da_x, da_y, da_z and da_t are pairwise
\* distinct: no coordinate is on two axes.
C25_NoCoordinateOnTwoAxes ==
  \A i \in 1..4, j \in 1..4 :
    (i # j /\ state[AxisKeys[i]] # None)
      => state[AxisKeys[i]] # state[AxisKeys[j]]

C27_AxesNameCoordinatesOfActiveArray ==
  (last.op = "flush" /\ last.raised = None /\ pending = {})
    => \A a \in 1..4 :
         state[AxisKeys[a]] # None
           => \E i \in 1..Len(state.da_coordinates) :
                state.da_coordinates[i].name = state[AxisKeys[a]]

\* C28: set_dataset_path never returns with ui_loading still true: when
\* the path is not null, whether the dataset opened or the opening failed
\* and the error was recorded, ui_loading is false on return.
C28_SetDatasetPathUnlocksLoading ==
  \A p \in Paths :
    ~set_dataset_path(Builder, p).state.ui_loading

\* C29: once an operation and its change callbacks have ended with a time
\* axis assigned, da_t_max is the length of the time coordinate minus one
\* and 0 <= da_t_index <= da_t_max.
C29_TimeIndexWithinTimeAxis ==
  (last.op = "flush" /\ last.raised = None /\ pending = {}
   /\ state.da_t # None)
    => /\ state.da_t_max = CoordSize(state.da_t) - 1
       /\ 0 <= state.da_t_index
       /\ state.da_t_index <= state.da_t_max

\* C30: while a plot_mesh is suspended in its delay, the plotter is changed
\* by a plot_mesh only: no other handler clears or modifies it.
C30_PlotterChangedByPlotMeshOnly ==
  [][((\E t \in Tasks : tasks[t] = "sleeping") /\ plotter' # plotter)
       => last'.op = "plot_mesh"]_vars

\* C33: import_config of the exported config of a builder with a loaded
\* dataset leaves every axis that was null at export time null.
C33_RoundTripKeepsUnassignedAxes ==
  [][(RoundTripStep /\ dataset # None /\ last'.raised = None)
       => \A a \in 1..4 : state[AxisKeys[a]] = None
                             => state'[AxisKeys[a]] = None]_vars

\* C32: the flush of the change callbacks ends: it returns with no callback
\* pending, or an exception of a callback has ended it.
C32_CascadeTerminates ==
  [][last'.op = "flush" => (pending' = {} \/ last'.raised # None)]_vars

\* a flush has ended without exception after a write to da_coordinates whose
\* callback wrote the slicing
C32_Witness ==
  /\ last.op = "flush" /\ last.raised = None /\ pending = {}
  /\ state.da_active = "v2"
  /\ state.slicing = SlicingOf(state.da_coordinates)
  /\ state.ui_unapplied_changes

\* C31: whenever no plot_mesh is suspended, the plotter shows the mesh of a
\* render that ended without error and ui_unapplied_changes is false, the
\* mesh shown was built from the builder's current fields.
C31_ShownMeshIsCurrent ==
  (/\ \A t \in Tasks : tasks[t] # "sleeping"
   /\ plotter = "mesh"
   /\ v_state.ui_error_message = None
   /\ ~v_state.ui_unapplied_changes)
    => fresh

====
